---- MODULE Spec2Model ----
(***************************************************************************)
(* Model of the lifetime-gats library (src/src/lib.rs) and of the types    *)
(* of its example (src/examples/associated-type.rs).                       *)
(*                                                                         *)
(* The library is a type-level device, so the state machine is a safe      *)
(* client program built one statement at a time.  Every action is one      *)
(* statement; the statement is either accepted by the library's            *)
(* signatures (trait bounds, receiver kinds, variance of the structs) and  *)
(* then executed, or statically rejected, in which case only `last`        *)
(* records the attempt.  Lifetimes are region end points: a larger number  *)
(* is a longer lifetime, Static outlives every region.                     *)
(***************************************************************************)
EXTENDS Integers, Sequences, FiniteSets

\* ------------------------------------------------------------- bounds
MaxLife == 3
MaxBorrows == 2
MaxVals == 1

Static == MaxLife + 1
Lifetimes == 1..MaxLife
\* One payload cell is declared in each region; cell c lives to the end of
\* region c.
Cells == Lifetimes
CellEnd(c) == c
\* What a client writes: the 42 of the write scenario.
PayloadVals == {42}

VARIABLES now, payload, wrapper, borrows, vals, last
vars == <<now, payload, wrapper, borrows, vals, last>>

\* ------------------------------------------------------------- types
\* The value types a client can hand to `new`: &'x U, &'x mut U, the
\* example's SpecialRef<'x> and SpecialRefMut<'x>, and a plain u32.
Types == {"SharedRef", "MutRef", "SpecialRef", "SpecialRefMut", "U32"}

\* unsafe impl LifetimeCast<'b> for ... : for &'a T, &'a mut T, SpecialRef<'a>
\* and SpecialRefMut<'a>, each for every destination 'b.  u32 has none.
ImplLifetimeCast(ty) == ty \in {"SharedRef", "MutRef", "SpecialRef", "SpecialRefMut"}

\* Copy: shared references are; exclusive references are not; SpecialRef and
\* SpecialRefMut are declared without #[derive(Copy)].
IsCopy(ty) == ty \in {"SharedRef", "U32"}

\* The types that hold an exclusive borrow of their payload.
IsExclusive(ty) == ty \in {"MutRef", "SpecialRefMut"}

\* A value of a lifetime-generic type: the pointer bits (the payload cell it
\* addresses) and the lifetime parameter of its type.
Value(ty, addr, lt) == [ty |-> ty, addr |-> addr, lt |-> lt]
NoValue == Value("none", 0, 0)

\* mem::transmute: the bits are kept as they are.
transmute(bits) == bits

\* A cast that builds a value of the destination type instead of
\* reinterpreting self.
castFresh(self, b) == [self EXCEPT !.addr = 1, !.lt = b]

\* LifetimeCast::cast: the same bits, typed with the destination lifetime.
cast(self, b) == [self EXCEPT !.addr = transmute(self.addr), !.lt = b]

\* LifetimeCast::cast_reference: a view of the same storage typed with the
\* destination lifetime.
cast_reference(self, b) == [self EXCEPT !.addr = transmute(self.addr), !.lt = b]

\* LifetimeCast::cast_reference_mut: as cast_reference, for &mut.
cast_reference_mut(self, b) == [self EXCEPT !.addr = transmute(self.addr), !.lt = b]

\* ------------------------------------------------------------- variance
\* Other markers the structs could carry: PhantomData<fn(&'a ())> and
\* PhantomData<&'a T>.
WrapperFieldsFnArg == <<"T", "PhantomFnArg">>
WrapperFieldsRef == <<"T", "PhantomRef">>

\* pub struct Reference<'a, T: 'a>(T, PhantomData<&'a mut T>), and the same
\* for ReferenceMut: the field shapes that decide the struct's variance.
WrapperFields == <<"T", "PhantomRefMut">>

\* Variance of one field shape in the lifetime 'a and in the type T.
FieldVariance(shape, param) ==
    CASE shape = "T" /\ param = "T" -> "co"
      [] shape = "T" /\ param = "a" -> "bi"
      [] shape = "PhantomRefMut" /\ param = "a" -> "co"
      [] shape = "PhantomRefMut" /\ param = "T" -> "inv"
      [] shape = "PhantomRef" /\ param = "a" -> "co"
      [] shape = "PhantomRef" /\ param = "T" -> "co"
      [] shape = "PhantomFnArg" /\ param = "a" -> "contra"
      [] shape = "PhantomFnArg" /\ param = "T" -> "bi"

\* Two uses of a parameter combine to the strictest variance.
Meet(v1, v2) ==
    IF v1 = "bi" THEN v2
    ELSE IF v2 = "bi" THEN v1
    ELSE IF v1 = v2 THEN v1
    ELSE "inv"

RECURSIVE MeetAll(_, _, _)
MeetAll(fields, param, i) ==
    IF i > Len(fields) THEN "bi"
    ELSE Meet(FieldVariance(fields[i], param), MeetAll(fields, param, i + 1))

Variance(param) == MeetAll(WrapperFields, param, 1)

\* Whether a value whose parameter is `from` may stand where `to` is required.
\* For lifetimes the longer one is the subtype.
Substitutable(v, from, to) ==
    CASE v = "co" -> to <= from
      [] v = "contra" -> to >= from
      [] v = "bi" -> TRUE
      [] v = "inv" -> to = from

\* ------------------------------------------------------------- wrappers
Empty == [kind |-> "none", L |-> 0, v |-> NoValue, origin |-> 0]

Kinds == {"Reference", "ReferenceMut"}

\* new without the T: 'a bound.
NewAcceptsAnyLifetime(ty, x, a) == ImplLifetimeCast(ty)

\* Reference::new / ReferenceMut::new: where T: 'a + LifetimeCast<'static>.
\* x is the lifetime of the argument's type, a the requested 'a.
NewAccepts(ty, x, a) == ImplLifetimeCast(ty) /\ x >= a

\* The body of new: Reference(s.cast(), PhantomData), cast being to 'static.
NewWrapper(kind, s, a) ==
    [kind |-> kind, L |-> a, v |-> cast(s, Static), origin |-> s.addr]

NoLast ==
    [op |-> "none", ok |-> TRUE, kind |-> "none", ty |-> "none",
     p |-> 0, q |-> 0, addr |-> 0, val |-> 0, origin |-> 0, conflict |-> FALSE]

\* The payload of cell c: the example's 10 in the first, a distinct value in
\* every other.
InitialPayload == [c \in Cells |-> 10 * c]

Init ==
    /\ now = 1
    /\ payload = InitialPayload
    /\ wrapper = Empty
    /\ borrows = <<>>
    /\ vals = {}
    /\ last = NoLast

\* ------------------------------------------------------------- helpers
Alive == wrapper.kind /= "none"

Borrowed == Len(borrows) > 0

\* The borrow of a payload cell that a client may take: an exclusive borrow
\* needs the cell unreferenced.
CellBorrowable(ty, c) == IsExclusive(ty) => \A v \in vals : v.addr /= c

Attempt(op, ok, w, p, q, addr, val, conflict) ==
    [op |-> op, ok |-> ok, kind |-> w.kind, ty |-> w.v.ty,
     p |-> p, q |-> q, addr |-> addr, val |-> val, origin |-> w.origin,
     conflict |-> conflict]

\* ------------------------------------------------------------- access impls
\* The accessor impls without the Copy bound.
AccessImplNoCopy(ty) == ImplLifetimeCast(ty)

\* impl<T: LifetimeCast<'a> + Copy> ops::Deref for Reference<'a, T>, the same
\* for ReferenceMut, and ops::DerefMut for ReferenceMut: the bound on T.
AccessImplExists(ty) == ImplLifetimeCast(ty) /\ IsCopy(ty)

\* ops::DerefMut is implemented for ReferenceMut only.
HasDerefMut(kind) == kind = "ReferenceMut"

\* Both accessors taking &self.
SelfBorrowShared(op) == "shared"

\* The receiver of each accessor: deref(&self), deref_mut(&mut self).
SelfBorrow(op) == IF op = "deref_mut" THEN "excl" ELSE "shared"

\* A borrow of the wrapper is allowed beside the outstanding ones when all of
\* them, the new one included, are shared.
BorrowAllowed(recv) ==
    \A i \in 1..Len(borrows) : recv = "shared" /\ borrows[i].recv = "shared"

\* The accessors returning the stored 'static form, or casting to the
\* lifetime of the access.
DerefTargetStatic(w, s) == Static
DerefTargetAccess(w, s) == s

\* type Target = T::Target with T: LifetimeCast<'a>: the lifetime parameter of
\* the accessor's result type, for a wrapper w accessed for lifetime s.
DerefTargetLifetime(w, s) == w.L

\* What an outstanding access b reads: the wrapper's storage through
\* cast_reference (deref) or cast_reference_mut (deref_mut).
View(b) ==
    IF b.mut THEN cast_reference_mut(wrapper.v, b.tag)
    ELSE cast_reference(wrapper.v, b.tag)

\* ------------------------------------------------------------- statements
\* let w = Reference::new(s) / ReferenceMut::new(s), s borrowing cell c for x.
New(kind, ty, c, x, a) ==
    /\ ~Alive
    /\ CellBorrowable(ty, c)
    /\ LET s == Value(ty, c, x)
           ok == NewAccepts(ty, x, a)
           w == NewWrapper(kind, s, a)
       IN /\ wrapper' = IF ok THEN w ELSE wrapper
          /\ last' = Attempt("new", ok, [w EXCEPT !.v = s], x, a, c, 0, FALSE)
    /\ UNCHANGED <<now, payload, borrows, vals>>

\* let w2: Wrapper<'b, T> = w;  the wrapper moved to a place that requires 'b.
Narrow(b) ==
    /\ Alive
    /\ ~Borrowed
    /\ b /= wrapper.L
    /\ LET w == wrapper
           ok == Substitutable(Variance("a"), w.L, b)
       IN /\ wrapper' = IF ok THEN [wrapper EXCEPT !.L = b] ELSE wrapper
          /\ last' = Attempt("narrow", ok, w, w.L, b, w.v.addr, 0, FALSE)
    /\ UNCHANGED <<now, payload, borrows, vals>>

\* let w2: Wrapper<'a, T<'q>> = w;  the wrapper used where one of another
\* contained type is required.
Retype(q) ==
    /\ Alive
    /\ ~Borrowed
    /\ q /= wrapper.v.lt
    /\ LET w == wrapper
           ok == Substitutable(Variance("T"), w.v.lt, q)
       IN /\ wrapper' = IF ok THEN [wrapper EXCEPT !.v.lt = q] ELSE wrapper
          /\ last' = Attempt("retype", ok, w, w.v.lt, q, w.v.addr, 0, FALSE)
    /\ UNCHANGED <<now, payload, borrows, vals>>

\* let r = w.deref();  the access borrows the wrapper for s.
Deref(s) ==
    /\ Alive
    /\ Len(borrows) < MaxBorrows
    /\ s \in now..wrapper.L
    /\ LET w == wrapper
           recv == SelfBorrow("deref")
           conflict == ~BorrowAllowed(recv)
           ok == AccessImplExists(w.v.ty) /\ BorrowAllowed(recv)
           tag == DerefTargetLifetime(w, s)
           b == [s |-> s, recv |-> recv, mut |-> FALSE, tag |-> tag]
       IN /\ borrows' = IF ok THEN Append(borrows, b) ELSE borrows
          /\ last' = Attempt("deref", ok, w, s, tag, w.v.addr, 0, conflict)
    /\ UNCHANGED <<now, payload, wrapper, vals>>

\* let r = w.deref_mut();  the access borrows the wrapper for s.
DerefMut(s) ==
    /\ Alive
    /\ Len(borrows) < MaxBorrows
    /\ s \in now..wrapper.L
    /\ LET w == wrapper
           recv == SelfBorrow("deref_mut")
           conflict == ~BorrowAllowed(recv)
           ok == /\ HasDerefMut(w.kind)
                 /\ AccessImplExists(w.v.ty)
                 /\ BorrowAllowed(recv)
           tag == DerefTargetLifetime(w, s)
           b == [s |-> s, recv |-> recv, mut |-> TRUE, tag |-> tag]
       IN /\ borrows' = IF ok THEN Append(borrows, b) ELSE borrows
          /\ last' = Attempt("deref_mut", ok, w, s, tag, w.v.addr, 0, conflict)
    /\ UNCHANGED <<now, payload, wrapper, vals>>

\* let v = *r;  the value behind an access copied out.
CopyOut(i) ==
    /\ i \in 1..Len(borrows)
    /\ Cardinality(vals) < MaxVals
    /\ LET b == borrows[i]
           w == wrapper
           v == View(b)
       IN /\ IsCopy(v.ty)
          /\ vals' = vals \cup {[ty |-> v.ty, addr |-> v.addr, lt |-> v.lt, fromL |-> w.L]}
          /\ last' = Attempt("copy", TRUE, w, b.s, v.lt, v.addr, 0, FALSE)
    /\ UNCHANGED <<now, payload, wrapper, borrows>>

\* let n = **r;  the payload read through an access.
Read(i) ==
    /\ i \in 1..Len(borrows)
    /\ LET b == borrows[i]
           w == wrapper
           v == View(b)
       IN last' = Attempt("read", TRUE, w, b.s, v.lt, v.addr, payload[v.addr], FALSE)
    /\ UNCHANGED <<now, payload, wrapper, borrows, vals>>

\* *r = &cell_c;  a value borrowing cell c for y assigned through the result
\* of deref_mut, whose type is the Target with lifetime b.tag.
Assign(i, c, y) ==
    /\ i \in 1..Len(borrows)
    /\ borrows[i].mut
    /\ LET b == borrows[i]
           w == wrapper
           ok == y >= b.tag
       IN /\ ~IsExclusive(w.v.ty)
          /\ CellBorrowable(w.v.ty, c)
          /\ wrapper' = IF ok THEN [wrapper EXCEPT !.v.addr = transmute(c)]
                         ELSE wrapper
          /\ last' = Attempt("assign", ok, w, y, b.tag, c, 0, FALSE)
    /\ UNCHANGED <<now, payload, borrows, vals>>

\* **w = n;  the payload written through the wrapper's write accessor.
WritePayload(n) ==
    /\ Alive
    /\ LET w == wrapper
           recv == SelfBorrow("deref_mut")
           conflict == ~BorrowAllowed(recv)
           ok == /\ HasDerefMut(w.kind)
                 /\ AccessImplExists(w.v.ty)
                 /\ IsExclusive(w.v.ty)
                 /\ BorrowAllowed(recv)
           v == cast_reference_mut(w.v, DerefTargetLifetime(w, now))
       IN /\ payload' = IF ok THEN [payload EXCEPT ![v.addr] = n] ELSE payload
          /\ last' = Attempt("write", ok, w, now, v.lt, v.addr, n, conflict)
    /\ UNCHANGED <<now, wrapper, borrows, vals>>

\* The result of an access is used no more.
EndBorrow(i) ==
    /\ i \in 1..Len(borrows)
    /\ borrows' = SubSeq(borrows, 1, i - 1) \o SubSeq(borrows, i + 1, Len(borrows))
    /\ last' = [NoLast EXCEPT !.op = "end"]
    /\ UNCHANGED <<now, payload, wrapper, vals>>

\* The wrapper goes out of scope.
Drop ==
    /\ Alive
    /\ ~Borrowed
    /\ wrapper' = Empty
    /\ last' = [NoLast EXCEPT !.op = "drop"]
    /\ UNCHANGED <<now, payload, borrows, vals>>

StillLive(b) == b.s >= now + 1

\* The program leaves region `now`: everything whose type is bounded by it is
\* gone, and so are the payload cells that lived only that long.
Tick ==
    /\ now < MaxLife
    /\ now' = now + 1
    /\ wrapper' = IF wrapper.L >= now + 1 THEN wrapper ELSE Empty
    /\ borrows' = SelectSeq(borrows, StillLive)
    /\ vals' = {v \in vals : v.lt >= now + 1}
    /\ last' = [NoLast EXCEPT !.op = "tick"]
    /\ UNCHANGED payload

Next ==
    \/ \E kind \in Kinds, ty \in Types, c \in Cells,
          x \in now..Static, a \in now..MaxLife :
          /\ IF ty = "U32" THEN x = Static ELSE x <= CellEnd(c)
          /\ New(kind, ty, c, x, a)
    \/ \E b \in now..Static : Narrow(b)
    \/ \E q \in now..Static : Retype(q)
    \/ \E s \in Lifetimes : Deref(s)
    \/ \E s \in Lifetimes : DerefMut(s)
    \/ \E i \in 1..MaxBorrows : CopyOut(i)
    \/ \E i \in 1..MaxBorrows : Read(i)
    \/ \E i \in 1..MaxBorrows, c \in Cells, y \in now..MaxLife :
          /\ y <= CellEnd(c)
          /\ Assign(i, c, y)
    \/ \E n \in PayloadVals : WritePayload(n)
    \/ \E i \in 1..MaxBorrows : EndBorrow(i)
    \/ Drop
    \/ Tick

Spec == Init /\ [][Next]_vars

\* ------------------------------------------------------------- claims

\* C1: lifetime safety.  Whatever safe code holds that came out of a wrapper
\* (the result of an access, a value copied out of it) is typed with a
\* lifetime no longer than the wrapper's L, never with the stored 'static,
\* and never outlives the payload it addresses.
C1_LifetimeSafety ==
    /\ \A v \in vals :
          /\ v.lt <= v.fromL
          /\ v.lt /= Static
          /\ v.lt <= CellEnd(v.addr)
          /\ now <= CellEnd(v.addr)
    /\ \A i \in 1..Len(borrows) :
          /\ borrows[i].s <= wrapper.L
          /\ View(borrows[i]).lt <= wrapper.L
          /\ View(borrows[i]).lt /= Static
          /\ wrapper.L <= CellEnd(wrapper.v.addr)

\* A value copied out of a mutable wrapper after an assignment through
\* deref_mut made it address another cell.
C1_Witness ==
    /\ Alive
    /\ wrapper.v.addr /= wrapper.origin
    /\ \E v \in vals : v.addr = wrapper.v.addr /\ v.lt = wrapper.L

\* C2: a read through Reference::new(&payload) addresses the payload's own
\* storage and yields the payload's value, which wrapping and reading left
\* as it was.
C2_ReadSameAsDirect ==
    (last.op = "read" /\ last.kind = "Reference" /\ last.ty = "SharedRef")
        => /\ last.addr = last.origin
           /\ last.val = payload[last.origin]
           /\ payload = InitialPayload

\* The field holding 10 read back as 10.
C2_Witness ==
    /\ last.op = "read" /\ last.kind = "Reference" /\ last.ty = "SharedRef"
    /\ last.origin = 1 /\ last.val = 10

\* C3: writing n through the write accessor of ReferenceMut::new(&mut payload)
\* is accepted and leaves the payload equal to n.
C3_WriteReachesPayload ==
    (last.op = "write" /\ last.kind = "ReferenceMut" /\ last.ty = "MutRef"
       /\ ~last.conflict)
        => /\ last.ok
           /\ payload[last.origin] = last.val

\* C4: a wrapped SpecialRef or SpecialRefMut can be read back through the
\* wrapper, and the read sees the bits that were wrapped.
C4_RoundTripIdentity ==
    (last.op = "deref" /\ last.ty \in {"SpecialRef", "SpecialRefMut"}
       /\ ~last.conflict)
        => /\ last.ok
           /\ last.addr = last.origin

\* C5: a wrapper's L never grows: a move to a place that requires a longer
\* lifetime is rejected and changes nothing, and in every step that keeps the
\* wrapper its L stays or shrinks.
C5_NarrowOnly ==
    [][/\ (Alive /\ Alive') => wrapper'.L <= wrapper.L
       /\ (last'.op = "narrow" /\ last'.q > last'.p)
             => (~last'.ok /\ wrapper' = wrapper)
       /\ (last'.op = "narrow" /\ last'.q < last'.p)
             => (last'.ok /\ wrapper'.L = last'.q)]_vars

\* A widening move that was rejected.
C5_Witness ==
    /\ last.op = "narrow" /\ ~last.ok /\ last.q > last.p
    /\ Alive /\ wrapper.L = last.p

\* C6: a wrapper never stands in for a wrapper of another contained type:
\* every such use is rejected, and the stored type keeps its lifetime.
C6_InvariantInT ==
    /\ last.op = "retype" => ~last.ok
    /\ Alive => wrapper.v.lt = Static

\* The contained type's lifetime asked to shrink through the wrapper, rejected.
C6_Witness ==
    /\ last.op = "retype" /\ ~last.ok /\ last.q < last.p
    /\ Alive

\* C7: a write access never coexists with another access to the same
\* wrapper, and one asked for while an access is outstanding is rejected.
C7_ExclusiveWrite ==
    /\ \A i, j \in 1..Len(borrows) : i /= j => ~borrows[i].mut
    /\ (last.op \in {"deref_mut", "write"} /\ last.conflict) => ~last.ok
    /\ (last.op = "deref" /\ last.conflict) => ~last.ok

\* deref_mut on a ReferenceMut of a Copy type, rejected only because an access
\* was outstanding.
C7_Witness ==
    /\ last.op = "deref_mut" /\ ~last.ok /\ last.conflict
    /\ last.kind = "ReferenceMut" /\ last.ty = "SharedRef"
    /\ Borrowed

\* C8 as stated: the value type of an access's result carries the lifetime of
\* the access itself.
C8_TagIsAccessLifetime ==
    \A i \in 1..Len(borrows) : View(borrows[i]).lt = borrows[i].s

\* C8 as amended: the value type of an access's result carries the wrapper's
\* L; only the returned reference is bounded by the access, which L outlives.
C8_TagIsWrapperLifetime ==
    /\ \A i \in 1..Len(borrows) :
          /\ View(borrows[i]).lt = wrapper.L
          /\ borrows[i].s <= wrapper.L
    /\ \A v \in vals : v.lt = v.fromL

\* An access shorter than the wrapper's L, with a value copied out of it.
C8_Witness ==
    /\ \E i \in 1..Len(borrows) : borrows[i].s < wrapper.L
    /\ last.op = "copy" /\ last.p < last.q

\* C9: new accepts only a type with the capability whose lifetime is at least
\* L, and builds a wrapper tagged L that stores the same bits in 'static form;
\* every wrapper's L is within the life of the payload it holds.
C9_ConstructionGuard ==
    /\ (last.op = "new" /\ last.ok)
          => /\ ImplLifetimeCast(last.ty)
             /\ last.p >= last.q
             /\ wrapper = [kind |-> last.kind, L |-> last.q,
                           v |-> Value(last.ty, last.addr, Static),
                           origin |-> last.addr]
    /\ (last.op = "new" /\ ~ImplLifetimeCast(last.ty)) => ~last.ok
    /\ Alive => /\ wrapper.L <= CellEnd(wrapper.v.addr)
                /\ wrapper.v.lt = Static

\* A value that lives longer than the requested L, wrapped.
C9_Witness ==
    /\ last.op = "new" /\ last.ok /\ last.p > last.q
    /\ Alive

\* C10: deref and deref_mut exist only for a stored type that is Copy and has
\* the capability; for any other stored type they are rejected, though new
\* built the wrapper.
C10_AccessNeedsCopy ==
    /\ (last.op \in {"deref", "deref_mut"} /\ last.ok)
          => (IsCopy(last.ty) /\ ImplLifetimeCast(last.ty))
    /\ (last.op \in {"deref", "deref_mut"} /\ ~IsCopy(last.ty)) => ~last.ok
    /\ Borrowed => IsCopy(wrapper.v.ty)

\* A wrapper of &mut that new built and deref refused.
C10_Witness ==
    /\ last.op = "deref" /\ ~last.ok /\ ~last.conflict
    /\ last.ty = "MutRef" /\ Alive /\ wrapper.v.ty = "MutRef"
====
